---- MODULE Spec2Model ----
(***************************************************************************)
(* Access control, session store and request validation of the business-  *)
(* records backend (app.py: sessions keyed by the caller's IP address).    *)
(*                                                                         *)
(* The server serves every request on a thread of its own and the          *)
(* scheduler runs the sweep timeout_check on another; the session mapping  *)
(* logged_ips is a plain dict and nothing is locked.  A step of the model  *)
(* is therefore one access of one thread to shared state: one call that    *)
(* reads or writes logged_ips, or one operation of the document store,     *)
(* together with the local computation that leads to it.  A request goes   *)
(* through before_req, its route handler (skipped when before_req          *)
(* answers) and after_req, and ends when its response is sent.             *)
(*                                                                         *)
(* The specifications share the state and the steps; each takes the        *)
(* routes its properties are about:                                        *)
(*   Spec          two threads, one key: clients created and read next to  *)
(*                 logins and logouts (the ownership filter, admission);   *)
(*   SpecLogin     two threads, one key: logins, logouts, the session      *)
(*                 read, password resets;                                  *)
(*   SpecAdmin     two threads, one key: the admin routes that read the    *)
(*                 users and change their roles;                           *)
(*   SpecSession   one request thread, the sweep thread and the clock;     *)
(*   SpecCreate    two threads, one key: creations of clients and bills;   *)
(*   SpecRecords   one thread, two keys: clients, bills and users, their   *)
(*                 creation, update and deletion;                          *)
(*   SpecValidate  valid_doc_datatype applied to drawn inputs;             *)
(*   SpecUsername  valid_username applied to drawn names.                  *)
(*                                                                         *)
(* Conventions.  Python's None is the string "None".  A string value of a  *)
(* document or a body (username, password, client id) is a sequence of     *)
(* one-character strings; ids are atoms.  An optional document (find's     *)
(* result) is a sequence of length 0 or 1.  A JSON body is a function      *)
(* from keys to values [type, v].  A response envelope {"status",          *)
(* "response"} is a record [status, kind, docs, val]: kind says what       *)
(* "response" holds ("null", "list" of docs, one "doc" in docs[1], a "str" *)
(* id in val); kind "error" is the outcome of an uncaught exception (HTTP  *)
(* 500, no envelope).                                                      *)
(***************************************************************************)
EXTENDS Integers, Sequences, FiniteSets, TLC

VARIABLES
    logged_ips,   \* app.py:311, session key -> {lastrequest, user, logged}
    order,        \* the keys of logged_ips in the dict's (insertion) order
    users,        \* the users collection, in store order
    clients,      \* the clients collection, in store order
    bills,        \* the bills collection, in store order
    nextId,       \* the document store's next generated _id
    now,          \* time()
    vdoc, vtemplate, vstrict, vresult,  \* one call of valid_doc_datatype
    vusername, vvalid,                  \* one call of valid_username
    pend,         \* the request each worker thread is serving and where
                  \* in it the worker is; once the response is sent, the
                  \* request it has served
    job           \* the sweep thread: its position, the keys it snapshot
                  \* and still has to examine

\* The arguments and results of the calls of the pure functions.
calls == <<vdoc, vtemplate, vstrict, vresult, vusername, vvalid>>

\* The threads' positions.
threads == <<pend, job>>

vars == <<logged_ips, order, users, clients, bills, nextId, now, calls,
          threads>>

None == "None"

\* ---------------------------------------------------------------- constants

STATUS_SUCCESS == 0
STATUS_POINTLESS_REQUEST == 1
STATUS_NOT_FOUND_DOCUMENT == 2
STATUS_ACCESS_DENIED == 3
STATUS_INVALID_JSON_DATA == 4
STATUS_DOCUMENT_ALREADY_EXISTS == 5

LOG_TIMEOUT == 30

USER_RESTRICTED_ROUTES == {"clients", "client", "bills"}

\* The routes that need a logged session (first path segment).
PRIVATE_ROUTES == {"clients", "client", "updateclient", "file", "bill", "bills"}

USERNAME_LENGTH == <<4, 37>>

USERNAME_ALLOWED_CHARS ==
    {"a", "b", "c", "d", "e", "f", "g", "h", "i", "j", "k", "l", "m", "n",
     "o", "p", "q", "r", "s", "t", "u", "v", "w", "x", "y", "z",
     "A", "B", "C", "D", "E", "F", "G", "H", "I", "J", "K", "L", "M", "N",
     "O", "P", "Q", "R", "S", "T", "U", "V", "W", "X", "Y", "Z",
     "0", "1", "2", "3", "4", "5", "6", "7", "8", "9"}

TEMPLATE_USER == [username |-> "str", password |-> "str", role |-> "str"]
TEMPLATE_LOGIN == [username |-> "str", password |-> "str"]
TEMPLATE_INSERT_CLIENT ==
    [id |-> "str", name |-> "str", phone |-> "str", email |-> "str",
     address |-> "str"]
TEMPLATE_UPDATE_CLIENT == [phone |-> "str", email |-> "str", address |-> "str"]
TEMPLATE_INSERT_BILL ==
    [ref |-> "str", date |-> "str", type |-> "str", description |-> "str",
     file |-> "str", client |-> "str"]
TEMPLATE_CHANGE_PASSWORD == [username |-> "str", password |-> "str"]

\* ------------------------------------------------------------------- bounds

MaxDocs == 2        \* documents the store generates an _id for
MaxTime == 31       \* the clock stops here
MaxName == 4        \* usernames up to this length are drawn exhaustively

\* ------------------------------------------------------------------ helpers

Str(v) == [type |-> "str", v |-> v]
Int_(v) == [type |-> "int", v |-> v]

\* Python's  value in text  for strings (str.find(value) != -1).
Contains(text, value) ==
    \E i \in 0..(Len(text) - Len(value)) :
        SubSeq(text, i + 1, i + Len(value)) = value

RECURSIVE Filter(_, _)
\* list(x for x in seq if keep[x]), keep given as the set of kept elements.
Filter(seq, keep) ==
    IF seq = <<>> THEN <<>>
    ELSE (IF Head(seq) \in keep THEN <<Head(seq)>> ELSE <<>>)
         \o Filter(Tail(seq), keep)

Range(seq) == {seq[i] : i \in DOMAIN seq}

\* ------------------------------------------------- the document collections

get(coll) == coll

find(coll, id) ==
    LET m == Filter(coll, {d \in Range(coll) : d._id = id})
    IN  IF m = <<>> THEN <<>> ELSE <<m[1]>>

search(coll, key, value, strict) ==
    IF strict
    THEN Filter(get(coll), {x \in Range(coll) : x[key] = value})
    ELSE Filter(get(coll), {x \in Range(coll) : Contains(x[key], value)})

\* insert(doc): the store generates the _id; returns the new collection.
insert(coll, doc, id) == Append(coll, [doc EXCEPT !._id = id])

update(coll, id, info) ==
    [i \in DOMAIN coll |->
        IF coll[i]._id = id THEN [info EXCEPT !._id = id] ELSE coll[i]]

delete(coll, id) == Filter(coll, {d \in Range(coll) : d._id # id})

\* ------------------------------------------------------ the schema validator

\* Mutant: strict means the same number of keys, each known to the template.
strict_validation_same_keys(document, template) ==
    /\ Cardinality(DOMAIN document) = Cardinality(DOMAIN template)
    /\ \A field \in DOMAIN document :
           /\ field \in DOMAIN template
           /\ document[field].type = template[field]

strict_validation(document, template) ==
    \A field \in DOMAIN template :
        /\ field \in DOMAIN document
        /\ document[field].type = template[field]

\* Mutant: a key the template does not know is refused.
non_strict_validation_known_keys(document, template) ==
    \A field \in DOMAIN document :
        /\ field \in DOMAIN template
        /\ document[field].type = template[field]

non_strict_validation(document, template) ==
    \A field \in DOMAIN template :
        field \in DOMAIN document => document[field].type = template[field]

valid_doc_datatype(document, template, strict) ==
    IF strict THEN strict_validation(document, template)
    ELSE non_strict_validation(document, template)

valid_password(password) == TRUE

\* What a function that returns a status code yields when it raises.
Raised == -1

\* "True", "False" or "TypeError".  A length outside range(*USERNAME_LENGTH)
\* returns False; otherwise the code takes len() of a generator expression,
\* which raises TypeError whatever the characters are.
valid_username(username) ==
    IF Len(username) \notin USERNAME_LENGTH[1]..(USERNAME_LENGTH[2] - 1)
    THEN "False"
    ELSE "TypeError"

\* A status code, or Raised when valid_username raises.
available_username(us, username) ==
    IF Len(search(us, "username", username, TRUE)) > 0
    THEN STATUS_DOCUMENT_ALREADY_EXISTS
    ELSE IF valid_username(username) = "TypeError" THEN Raised
    ELSE IF valid_username(username) = "False" THEN STATUS_INVALID_JSON_DATA
    ELSE STATUS_SUCCESS

valid_new_user(us, info) ==
    IF ~valid_doc_datatype(info, TEMPLATE_USER, TRUE)
    THEN STATUS_INVALID_JSON_DATA
    ELSE LET v_username == available_username(us, info.username.v)
         IN  IF v_username # STATUS_SUCCESS THEN v_username
             ELSE IF ~valid_password(info.password.v)
             THEN STATUS_INVALID_JSON_DATA
             ELSE STATUS_SUCCESS

\* ------------------------------------------------------------ session store

logged(li, ip) == IF ip \in DOMAIN li THEN li[ip].logged ELSE FALSE

get_user_id_by_ip(li, ip) == IF ip \in DOMAIN li THEN li[ip].user ELSE None

is_admin(us, user_id) ==
    LET d == find(us, user_id)
    IN  IF d = <<>> THEN FALSE ELSE d[1].admin

route_is_private(path) == path \in PRIVATE_ROUTES

route_is_only_admin(path) == path = "admin"

login(li, ip, id) ==
    [k \in DOMAIN li \cup {ip} |->
        IF k = ip THEN [lastrequest |-> 0, user |-> id, logged |-> TRUE]
        ELSE li[k]]

update_log(li, ip, t) ==
    [k \in DOMAIN li \cup {ip} |->
        IF k # ip THEN li[k]
        ELSE IF ip \in DOMAIN li THEN [li[ip] EXCEPT !.lastrequest = t]
        ELSE [lastrequest |-> t, user |-> None, logged |-> FALSE]]

\* list(logged_ips.keys()) once the mapping has become li: a deleted key
\* drops out, a key that is assigned keeps its place, a new key goes last.
\* No step of the program inserts more than one key.
keys(ord, li) ==
    LET kept == Filter(ord, DOMAIN li)
        new == DOMAIN li \ Range(ord)
    IN  IF new = {} THEN kept ELSE Append(kept, CHOOSE k \in new : TRUE)

\* Mutant: the username is searched without strict=True.
authenticate_substring(us, username, password) ==
    LET users_ == search(us, "username", username, FALSE)
    IN  IF users_ # <<>> /\ users_[1].password = password
        THEN users_[1]._id ELSE None

authenticate(us, username, password) ==
    LET users_ == search(us, "username", username, TRUE)
    IN  IF users_ # <<>> /\ users_[1].password = password
        THEN users_[1]._id ELSE None

\* ----------------------------------------------------------------- responses

Response(status, kind, docs, val) ==
    [status |-> status, kind |-> kind, docs |-> docs, val |-> val]

get_void_response(status_code) == Response(status_code, "null", <<>>, 0)

\* An uncaught exception: the caller gets HTTP 500 instead of an envelope.
ServerError == Response(Raised, "error", <<>>, 0)


\* ------------------------------------------------------ authorization gate

\* before_req's first test: TRUE when the request is denied because the
\* route needs a session and the key is not logged.
before_req(li, ip, path) == route_is_private(path) /\ ~logged(li, ip)

\* Mutant: an admin route asks for a resolved user, not for an admin.
before_req_admin_for_logged(us, u_id, path) ==
    route_is_only_admin(path) /\ u_id = None

\* before_req's second test, u_id being what get_user_id_by_ip returned:
\* TRUE when the request is denied because the route is for admins.
before_req_admin(us, u_id, path) ==
    route_is_only_admin(path) /\ ~is_admin(us, u_id)

\* has_restrict_access once u_id is read: None for a route that is not
\* restricted and u_id when it is None are both falsy.
has_restrict_access(us, u_id, path, method) ==
    IF path \in USER_RESTRICTED_ROUTES
    THEN u_id # None /\ ~is_admin(us, u_id) /\ method = "GET"
    ELSE FALSE

\* The body of  if has_restrict_access():  in after_req, current_user being
\* what get_user_id_by_ip returned:  <<response>> when res goes on to
\* update_log, <<>> when after_req does not return a response object.
\* response["response"]["user"] raises on a payload that is null, a string
\* or a document without "user" (and res.get_json() is None for the
\* response to an exception); a payload of another user makes after_req
\* return a dict, which the after-request function registered before it
\* (CORS(server), run after it) cannot handle.
restricted(res, current_user) ==
    IF res.kind = "list"
    THEN <<[res EXCEPT !.docs =
              Filter(res.docs,
                  {doc \in Range(res.docs) : doc.user = current_user})]>>
    ELSE IF res.kind # "doc" \/ "user" \notin DOMAIN res.docs[1]
    THEN <<>>
    ELSE IF res.docs[1].user # current_user
    THEN <<>>
    ELSE <<res>>

\* ------------------------------------------------------------ request inputs

IPs == {"ip1", "ip2"}

Anna == <<"a", "n", "n", "a">>
Ann == <<"a", "n", "n">>
Bob == <<"b", "o", "b", "1">>

\* request.json of a login: well formed (right and wrong credentials, a
\* username that is part of a stored one), well formed with one more key,
\* a key missing, a value of another type.
Credentials(u, p) == [username |-> Str(u), password |-> Str(p)]

LoginBodies ==
    {Credentials(Anna, <<"p">>), Credentials(Anna, <<"q">>),
     Credentials(Ann, <<"p">>), Credentials(Bob, <<"q">>),
     Credentials(Bob, <<"p">>),
     [username |-> Str(Bob), password |-> Str(<<"q">>),
      remember |-> Str(<<"y">>)],
     [username |-> Str(Anna)],
     [username |-> Str(Anna), password |-> Int_(<<"1">>)]}

\* request.json of a password reset.
ResetBodies ==
    {Credentials(Bob, <<"p">>), Credentials(Ann, <<"p">>),
     [username |-> Str(Bob)],
     [username |-> Str(Bob), password |-> Int_(<<"1">>)]}

ClientIds == {<<"7", "1">>}

\* <cl_id> of GET /clients/<cl_id>: part of a stored id, part of none.
ClientQueries == {<<"7">>, <<"9">>}

ClientBody(id) ==
    [id |-> Str(id), name |-> Str(<<"n">>), phone |-> Str(<<"0">>),
     email |-> Str(<<"e">>), address |-> Str(<<"a">>)]

ClientBodies ==
    {ClientBody(id) : id \in ClientIds}
    \cup {[id |-> Str(<<"7", "1">>), name |-> Str(<<"n">>)]}

DocIds == 1..MaxDocs

\* request.json of a client update: well formed, a phone of another type,
\* keys missing.
UpdateBodies ==
    {[phone |-> Str(<<"5">>), email |-> Str(<<"e">>), address |-> Str(<<"a">>)],
     [phone |-> Int_(<<"5">>), email |-> Str(<<"e">>), address |-> Str(<<"a">>)],
     [phone |-> Str(<<"5">>)]}

\* request.json of a bill creation: ref r, client c ("" is 0, else the
\* client's _id as a string).
BillBody(r, c) ==
    [ref |-> Str(r), date |-> Str(<<"d">>), type |-> Str(<<"t">>),
     description |-> Str(<<"x">>), file |-> Str(<<"f">>), client |-> Str(c)]

BillBodies ==
    {BillBody(<<"r">>, c) : c \in 0..MaxDocs}
    \cup {[ref |-> Str(<<"r">>), client |-> Str(1)]}

\* request.json of a change of one's own password: the current password
\* of anna, another one, no current password.
OwnPasswordBodies ==
    {[current |-> Str(<<"p">>), new |-> Str(<<"n">>)],
     [current |-> Str(<<"x">>), new |-> Str(<<"n">>)],
     [new |-> Str(<<"n">>)]}

\* request.json of a user creation: a stored username, a new one of an
\* accepted length, a new one too short, a key missing.
UserBody(u) ==
    [username |-> Str(u), password |-> Str(<<"p">>), role |-> Str(<<"u">>)]

UserBodies ==
    {UserBody(Bob), UserBody(<<"c", "a", "r", "l">>), UserBody(<<"a", "l">>),
     [username |-> Str(<<"c", "a", "r", "l">>), password |-> Str(<<"p">>)]}

\* An id a caller can name: none ("" is 0) or one the store has generated.
Generated(id) == id < nextId

\* The credentials of the two stored users.
StoredLogins == {Credentials(Anna, <<"p">>), Credentials(Bob, <<"q">>)}

\* The credentials of the two stored users, and a body without password.
Logins ==
    {Credentials(Anna, <<"p">>), Credentials(Bob, <<"q">>),
     [username |-> Str(Anna)]}

\* The builtin function  id , which remove_admin passes for the path's _id.
BuiltinId == "<built-in function id>"

SeededUsers ==
    <<[_id |-> "ua", username |-> Anna, password |-> <<"p">>, admin |-> TRUE],
      [_id |-> "ub", username |-> Bob, password |-> <<"q">>, admin |-> FALSE]>>

UserIds == {"ua", "ub", "ux"}

\* ------------------------------------------------------------------ requests

Workers == {"w1", "w2"}

\* A worker serving no request.  Serving one it holds the caller's key, the
\* route's handler, request.json, the path's parameter, the handler's
\* locals (the user read from the session mapping, the document read from
\* the store, the generated id), the handler's response (raw) and the
\* response as after_req has it (out).  For the properties it records who
\* the key's entry named and with what role when the request arrived, how
\* long the entry had been idle, whether before_req admitted the request
\* and when the handler wrote the session entry.
NoThread ==
    [pc |-> "none", ip |-> "", route |-> "", body |-> <<>>, key |-> 0,
     user |-> None, doc |-> <<>>, id |-> 0,
     who |-> None, admin |-> FALSE, idle |-> 0, ran |-> FALSE, at |-> 0,
     raw |-> get_void_response(STATUS_SUCCESS),
     out |-> get_void_response(STATUS_SUCCESS)]

\* The sweep thread between two cycles.  In a cycle keys is what is left of
\* list(logged_ips.keys()); begun records when the cycle started and gone
\* the keys it has deleted; error says the last cycle ended in an
\* exception.
NoJob ==
    [pc |-> "wait", keys |-> <<>>, error |-> FALSE, begun |-> 0, gone |-> {}]

\* First segment of the route's path.
Path(handler) ==
    CASE handler \in {"process_login", "logout", "process_logged"} -> "log"
      [] handler \in {"get_clients", "search_clients"} -> "clients"
      [] handler \in {"get_client", "create_client", "delete_client"}
            -> "client"
      [] handler = "updateClient" -> "updateclient"
      [] handler \in {"add_bill", "delete_bill"} -> "bill"
      [] handler = "get_bills" -> "bills"
      [] OTHER -> "admin"

Method(handler) ==
    CASE handler \in {"logout", "delete_client", "delete_bill"} -> "DELETE"
      [] handler \in {"process_login", "create_client", "updateClient",
                      "add_bill", "create_user", "change_password",
                      "change_self_password"} -> "POST"
      [] OTHER -> "GET"

\* The worker w moves on in its request.
Goes(w, thread) == pend' = [pend EXCEPT ![w] = thread]

\* A step of w that writes nothing shared.
Reads(w, thread) ==
    /\ Goes(w, thread)
    /\ UNCHANGED <<logged_ips, order, users, clients, bills, nextId, now,
                   calls, job>>

\* A step of w that writes the session mapping.
Logs(w, thread, li) ==
    /\ Goes(w, thread)
    /\ logged_ips' = li
    /\ order' = keys(order, li)
    /\ UNCHANGED <<users, clients, bills, nextId, now, calls, job>>

\* A step of w that writes the document store.
Stores(w, thread, us, cl, bl, nid) ==
    /\ Goes(w, thread)
    /\ users' = us
    /\ clients' = cl
    /\ bills' = bl
    /\ nextId' = nid
    /\ UNCHANGED <<logged_ips, order, now, calls, job>>

\* The worker serves no request: it has served none, or has sent the
\* response of the last one.
Free(w) == pend[w].pc \in {"none", "sent"}

\* Requests are handed to the first free worker.
Takes(w) == Free(w) /\ (w = "w2" => ~Free("w1"))

\* The thread once the handler, or before_req in its place, has returned
\* resp: after_req is next, has_restrict_access first when the path is one
\* of the restricted routes (for the others it returns None whatever it
\* reads).
Return(t, resp) ==
    [t EXCEPT !.pc = IF Path(t.route) \in USER_RESTRICTED_ROUTES
                     THEN "restrict" ELSE "update_log",
              !.raw = resp, !.out = resp,
              !.user = None, !.doc = <<>>, !.id = 0]

\* The thread once the final response is sent.
Sent(t, resp) == [t EXCEPT !.pc = "sent", !.out = resp, !.user = None]

\* A request arrives at a free worker, which starts before_req with the
\* test of logged() for a route that needs a session.
arrive(w, ip, handler, body, key) ==
    LET path == Path(handler)
        u_id == get_user_id_by_ip(logged_ips, ip)
        t == [NoThread EXCEPT
                !.ip = ip, !.route = handler, !.body = body, !.key = key,
                !.who = u_id, !.admin = is_admin(users, u_id),
                !.idle = IF ip \in DOMAIN logged_ips
                         THEN now - logged_ips[ip].lastrequest ELSE 0]
    IN  /\ Takes(w)
        /\ IF before_req(logged_ips, ip, path)
           THEN Reads(w, Return(t, get_void_response(STATUS_ACCESS_DENIED)))
           ELSE IF route_is_only_admin(path)
           THEN Reads(w, [t EXCEPT !.pc = "admit_user"])
           ELSE Reads(w, [t EXCEPT !.pc = "handler", !.ran = TRUE])

\* before_req for an admin route: get_user_id_by_ip.
admit_user(w) ==
    LET t == pend[w]
        u_id == get_user_id_by_ip(logged_ips, t.ip)
    IN  /\ t.pc = "admit_user"
        /\ Reads(w, [t EXCEPT !.pc = "admit", !.user = u_id, !.who = u_id])

\* before_req for an admin route: is_admin's users.find.
admit(w) ==
    LET t == pend[w]
    IN  /\ t.pc = "admit"
        /\ IF before_req_admin(users, t.user, Path(t.route))
           THEN Reads(w, Return([t EXCEPT !.admin = is_admin(users, t.user)],
                                get_void_response(STATUS_ACCESS_DENIED)))
           ELSE Reads(w, [t EXCEPT !.pc = "handler", !.ran = TRUE,
                                   !.admin = is_admin(users, t.user),
                                   !.user = None])

\* The worker w is in the handler named, at the position pc.
At(w, handler, pc) == pend[w].route = handler /\ pend[w].pc = pc

\* ------------------------------------------------------------ route handlers

\* POST /log: the body is validated and authenticate searches the users.
process_login(w) ==
    LET t == pend[w]
    IN  /\ At(w, "process_login", "handler")
        /\ IF ~valid_doc_datatype(t.body, TEMPLATE_LOGIN, TRUE)
           THEN Reads(w, Return(t, get_void_response(STATUS_INVALID_JSON_DATA)))
           ELSE LET auth == authenticate(users, t.body.username.v,
                                         t.body.password.v)
                IN  IF auth # None
                    THEN Reads(w, [t EXCEPT !.pc = "login", !.user = auth])
                    ELSE Reads(w, Return(t,
                             get_void_response(STATUS_ACCESS_DENIED)))

\* POST /log, login(auth): the key's entry is written.
process_login_login(w) ==
    LET t == pend[w]
    IN  /\ At(w, "process_login", "login")
        /\ Logs(w, Return([t EXCEPT !.at = now],
                          Response(STATUS_SUCCESS, "null", <<>>, 0)),
                login(logged_ips, t.ip, t.user))

\* Mutant: logout marks the entry not logged and keeps its user.
logout_keeps_user(w) ==
    LET t == pend[w]
    IN  /\ At(w, "logout", "handler")
        /\ IF t.ip \in DOMAIN logged_ips
           THEN Logs(w, Return(t, get_void_response(STATUS_SUCCESS)),
                     [logged_ips EXCEPT ![t.ip].logged = FALSE])
           ELSE Reads(w, Return(t,
                    get_void_response(STATUS_POINTLESS_REQUEST)))

\* DELETE /log
logout(w) ==
    LET t == pend[w]
    IN  /\ At(w, "logout", "handler")
        /\ IF t.ip \in DOMAIN logged_ips
           THEN Logs(w, Return(t, get_void_response(STATUS_SUCCESS)),
                     [k \in DOMAIN logged_ips \ {t.ip} |-> logged_ips[k]])
           ELSE Reads(w, Return(t,
                    get_void_response(STATUS_POINTLESS_REQUEST)))

\* GET /log: logged().
process_logged(w) ==
    LET t == pend[w]
    IN  /\ At(w, "process_logged", "handler")
        /\ IF logged(logged_ips, t.ip)
           THEN Reads(w, [t EXCEPT !.pc = "user"])
           ELSE Reads(w, Return(t, get_void_response(STATUS_ACCESS_DENIED)))

\* GET /log: get_user_id_by_ip for users.find.
process_logged_user(w) ==
    LET t == pend[w]
    IN  /\ At(w, "process_logged", "user")
        /\ Reads(w, [t EXCEPT !.pc = "find",
                              !.user = get_user_id_by_ip(logged_ips, t.ip)])

\* GET /log: users.find; user["_id"] raises TypeError when it found none.
process_logged_find(w) ==
    LET t == pend[w]
        user == find(users, t.user)
    IN  /\ At(w, "process_logged", "find")
        /\ IF user = <<>> THEN Reads(w, Return(t, ServerError))
           ELSE Reads(w, [t EXCEPT !.pc = "role", !.doc = user])

\* GET /log: get_user_id_by_ip for is_admin.
process_logged_role(w) ==
    LET t == pend[w]
    IN  /\ At(w, "process_logged", "role")
        /\ Reads(w, [t EXCEPT !.pc = "admin",
                              !.user = get_user_id_by_ip(logged_ips, t.ip)])

\* GET /log: is_admin's users.find, and the response.
process_logged_admin(w) ==
    LET t == pend[w]
    IN  /\ At(w, "process_logged", "admin")
        /\ Reads(w, Return(t, Response(STATUS_SUCCESS, "doc",
                     <<[user |-> t.doc[1]._id,
                        username |-> t.doc[1].username,
                        admin |-> is_admin(users, t.user)]>>, 0)))

\* GET /clients
get_clients(w) ==
    LET t == pend[w]
    IN  /\ At(w, "get_clients", "handler")
        /\ Reads(w, Return(t, Response(STATUS_SUCCESS, "list",
                                       get(clients), 0)))

\* GET /clients/<cl_id>
search_clients(w) ==
    LET t == pend[w]
    IN  /\ At(w, "search_clients", "handler")
        /\ IF t.key # <<>>
           THEN Reads(w, Return(t, Response(STATUS_SUCCESS, "list",
                                   search(clients, "id", t.key, FALSE), 0)))
           ELSE Reads(w, Return(t,
                    get_void_response(STATUS_POINTLESS_REQUEST)))

\* GET /client/<_id>
get_client(w) ==
    LET t == pend[w]
        res == find(clients, t.key)
    IN  /\ At(w, "get_client", "handler")
        /\ IF t.key = 0
           THEN Reads(w, Return(t,
                    get_void_response(STATUS_POINTLESS_REQUEST)))
           ELSE IF res # <<>>
           THEN Reads(w, Return(t, Response(STATUS_SUCCESS, "doc", res, 0)))
           ELSE Reads(w, Return(t,
                    get_void_response(STATUS_NOT_FOUND_DOCUMENT)))

\* POST /client: the body is validated and the owner is read from the
\* session mapping.
create_client(w) ==
    LET t == pend[w]
    IN  /\ At(w, "create_client", "handler")
        /\ IF ~valid_doc_datatype(t.body, TEMPLATE_INSERT_CLIENT, TRUE)
           THEN Reads(w, Return(t, get_void_response(STATUS_INVALID_JSON_DATA)))
           ELSE Reads(w, [t EXCEPT !.pc = "insert",
                            !.user = get_user_id_by_ip(logged_ips, t.ip)])

\* POST /client, clients.insert.  Of the fields copied from the body the
\* document keeps id and phone; name, email and address are handled as
\* phone is.
create_client_insert(w) ==
    LET t == pend[w]
    IN  /\ At(w, "create_client", "insert")
        /\ nextId <= MaxDocs
        /\ Stores(w, Return(t, Response(STATUS_SUCCESS, "str", <<>>, nextId)),
                  users,
                  insert(clients,
                         [_id |-> 0, id |-> t.body.id.v, user |-> t.user,
                          phone |-> t.body.phone, bills |-> <<>>], nextId),
                  bills, nextId + 1)

\* DELETE /client/<_id>: the bills that name the client are not read.
delete_client(w) ==
    LET t == pend[w]
    IN  /\ At(w, "delete_client", "handler")
        /\ IF t.key = 0
           THEN Reads(w, Return(t,
                    get_void_response(STATUS_POINTLESS_REQUEST)))
           ELSE Stores(w, Return(t, get_void_response(STATUS_SUCCESS)),
                       users, delete(clients, t.key), bills, nextId)

\* POST /updateclient/<_id>, clients.find.  No template is checked:
\* request.json["phone"], ["email"] and ["address"] are read (KeyError when
\* one is missing) and copied whatever their type.
updateClient(w) ==
    LET t == pend[w]
        doc == find(clients, t.key)
    IN  /\ At(w, "updateClient", "handler")
        /\ IF t.key = 0
           THEN Reads(w, Return(t,
                    get_void_response(STATUS_POINTLESS_REQUEST)))
           ELSE IF doc = <<>>
           THEN Reads(w, Return(t,
                    get_void_response(STATUS_NOT_FOUND_DOCUMENT)))
           ELSE IF ~({"phone", "email", "address"} \subseteq DOMAIN t.body)
           THEN Reads(w, Return(t, ServerError))
           ELSE Reads(w, [t EXCEPT !.pc = "update", !.doc =
                            <<[doc[1] EXCEPT !.phone = t.body.phone]>>])

\* POST /updateclient/<_id>, clients.update: the document read is written
\* back whole.
updateClient_update(w) ==
    LET t == pend[w]
    IN  /\ At(w, "updateClient", "update")
        /\ Stores(w, Return(t, get_void_response(STATUS_SUCCESS)),
                  users, update(clients, t.key, t.doc[1]), bills, nextId)

\* POST /bill: the body is validated and the stored refs (bills.get) are
\* compared with the body's.
add_bill(w) ==
    LET t == pend[w]
    IN  /\ At(w, "add_bill", "handler")
        /\ IF ~valid_doc_datatype(t.body, TEMPLATE_INSERT_BILL, TRUE)
           THEN Reads(w, Return(t, get_void_response(STATUS_INVALID_JSON_DATA)))
           ELSE IF \E i \in DOMAIN bills : bills[i].ref = t.body.ref.v
           THEN Reads(w, Return(t, get_void_response(STATUS_INVALID_JSON_DATA)))
           ELSE Reads(w, [t EXCEPT !.pc = "user"])

\* POST /bill: the owner is read from the session mapping.
add_bill_user(w) ==
    LET t == pend[w]
    IN  /\ At(w, "add_bill", "user")
        /\ Reads(w, [t EXCEPT !.pc = "insert",
                        !.user = get_user_id_by_ip(logged_ips, t.ip)])

\* POST /bill, bills.insert.
add_bill_insert(w) ==
    LET t == pend[w]
        inserted == [t EXCEPT !.id = nextId, !.pc = "find"]
    IN  /\ At(w, "add_bill", "insert")
        /\ nextId <= MaxDocs
        /\ Stores(w,
                  IF t.body.client.v # 0 THEN inserted
                  ELSE Return(t, Response(STATUS_SUCCESS, "str", <<>>, nextId)),
                  users, clients,
                  insert(bills,
                         [_id |-> 0, ref |-> t.body.ref.v, user |-> t.user,
                          client |-> t.body.client.v], nextId),
                  nextId + 1)

\* POST /bill, clients.find and cl["bills"].append: TypeError when the id
\* names no client, the bill staying in the collection.
add_bill_find(w) ==
    LET t == pend[w]
        cl == find(clients, t.body.client.v)
    IN  /\ At(w, "add_bill", "find")
        /\ IF cl = <<>> THEN Reads(w, Return(t, ServerError))
           ELSE Reads(w, [t EXCEPT !.pc = "update", !.doc =
                            <<[cl[1] EXCEPT !.bills = Append(@, t.id)]>>])

\* POST /bill, clients.update.
add_bill_update(w) ==
    LET t == pend[w]
    IN  /\ At(w, "add_bill", "update")
        /\ Stores(w, Return(t, Response(STATUS_SUCCESS, "str", <<>>, t.id)),
                  users, update(clients, t.body.client.v, t.doc[1]), bills,
                  nextId)

\* GET /bills
get_bills(w) ==
    LET t == pend[w]
    IN  /\ At(w, "get_bills", "handler")
        /\ Reads(w, Return(t, Response(STATUS_SUCCESS, "list", get(bills), 0)))

\* DELETE /bill/<id>, bills.find.
delete_bill(w) ==
    LET t == pend[w]
        doc == find(bills, t.key)
    IN  /\ At(w, "delete_bill", "handler")
        /\ IF t.key = 0
           THEN Reads(w, Return(t,
                    get_void_response(STATUS_POINTLESS_REQUEST)))
           ELSE IF doc = <<>>
           THEN Reads(w, Return(t,
                    get_void_response(STATUS_NOT_FOUND_DOCUMENT)))
           ELSE Reads(w, [t EXCEPT !.pc = "delete"])

\* DELETE /bill/<id>: the bill's file and the bill are deleted; the client
\* the bill names is not read.
delete_bill_delete(w) ==
    LET t == pend[w]
    IN  /\ At(w, "delete_bill", "delete")
        /\ Stores(w, Return(t, get_void_response(STATUS_SUCCESS)),
                  users, clients, delete(bills, t.key), nextId)

\* GET /admin/users
get_users(w) ==
    LET t == pend[w]
    IN  /\ At(w, "get_users", "handler")
        /\ Reads(w, Return(t, Response(STATUS_SUCCESS, "list", get(users), 0)))

\* POST /admin/users.  valid_new_user (one users.search) never returns
\* STATUS_SUCCESS (see valid_username), so users.insert is never reached.
create_user(w) ==
    LET t == pend[w]
        code == valid_new_user(users, t.body)
    IN  /\ At(w, "create_user", "handler")
        /\ IF code = Raised THEN Reads(w, Return(t, ServerError))
           ELSE IF code # STATUS_SUCCESS
           THEN Reads(w, Return(t, get_void_response(code)))
           ELSE Reads(w, [t EXCEPT !.pc = "insert"])

\* POST /admin/users, users.insert; request.json["admin"] raises KeyError
\* for a body that matches TEMPLATE_USER, which has no such key.
create_user_insert(w) ==
    LET t == pend[w]
    IN  /\ At(w, "create_user", "insert")
        /\ nextId <= MaxDocs
        /\ IF "admin" \notin DOMAIN t.body THEN Reads(w, Return(t, ServerError))
           ELSE Stores(w,
                    Return(t, Response(STATUS_SUCCESS, "str", <<>>, nextId)),
                    insert(users,
                           [_id |-> 0, username |-> t.body.username.v,
                            password |-> t.body.password.v,
                            admin |-> t.body.admin.v], nextId),
                    clients, bills, nextId + 1)

\* set_admin(id, value), users.find.
set_admin(w, id, value) ==
    LET t == pend[w]
        user == find(users, id)
    IN  IF user = <<>>
        THEN Reads(w, Return(t, get_void_response(STATUS_NOT_FOUND_DOCUMENT)))
        ELSE Reads(w, [t EXCEPT !.pc = "self", !.doc =
                         <<[user[1] EXCEPT !.admin = value]>>])

\* set_admin: the target is compared with get_user_id_by_ip.
set_admin_self(w) ==
    LET t == pend[w]
    IN  /\ t.pc = "self"
        /\ IF t.doc[1]._id = get_user_id_by_ip(logged_ips, t.ip)
           THEN Reads(w, Return(t, get_void_response(STATUS_INVALID_JSON_DATA)))
           ELSE Reads(w, [t EXCEPT !.pc = "set"])

\* set_admin, users.update.
set_admin_update(w) ==
    LET t == pend[w]
    IN  /\ t.pc = "set"
        /\ Stores(w, Return(t, get_void_response(STATUS_SUCCESS)),
                  update(users, t.doc[1]._id, t.doc[1]), clients, bills,
                  nextId)

\* GET /admin/addadmin/<_id>
add_admin(w) ==
    LET t == pend[w]
    IN  /\ At(w, "add_admin", "handler")
        /\ IF t.key = ""
           THEN Reads(w, Return(t,
                    get_void_response(STATUS_POINTLESS_REQUEST)))
           ELSE set_admin(w, t.key, TRUE)

\* GET /admin/removeadmin/<_id>: the handler passes the builtin  id , not
\* its parameter _id; find catches ObjectId's TypeError and finds nothing.
remove_admin(w) ==
    LET t == pend[w]
    IN  /\ At(w, "remove_admin", "handler")
        /\ IF t.key = ""
           THEN Reads(w, Return(t,
                    get_void_response(STATUS_POINTLESS_REQUEST)))
           ELSE set_admin(w, BuiltinId, FALSE)

\* POST /admin/resetpassword, users.search.  not valid(...) and
\* valid_password(json["password"]): the second operand is evaluated only
\* for an invalid body, and raises KeyError when it has no password; a body
\* the test lets through is read for its username and password.
change_password(w) ==
    LET t == pend[w]
        invalid == ~valid_doc_datatype(t.body, TEMPLATE_CHANGE_PASSWORD, TRUE)
        docs == search(users, "username", t.body.username.v, TRUE)
    IN  /\ At(w, "change_password", "handler")
        /\ IF invalid /\ "password" \notin DOMAIN t.body
           THEN Reads(w, Return(t, ServerError))
           ELSE IF invalid /\ valid_password(t.body.password.v)
           THEN Reads(w, Return(t,
                    get_void_response(STATUS_INVALID_JSON_DATA)))
           ELSE IF "username" \notin DOMAIN t.body
           THEN Reads(w, Return(t, ServerError))
           ELSE IF Len(docs) = 0
           THEN Reads(w, Return(t,
                    get_void_response(STATUS_NOT_FOUND_DOCUMENT)))
           ELSE Reads(w, [t EXCEPT !.pc = "update", !.doc =
                            <<[docs[1] EXCEPT
                                 !.password = t.body.password.v]>>])

\* POST /admin/resetpassword, users.update.
change_password_update(w) ==
    LET t == pend[w]
    IN  /\ At(w, "change_password", "update")
        /\ Stores(w, Return(t, get_void_response(STATUS_SUCCESS)),
                  update(users, t.doc[1]._id, t.doc[1]), clients, bills,
                  nextId)

\* POST /admin/changepassword: get_user_id_by_ip.
change_self_password(w) ==
    LET t == pend[w]
    IN  /\ At(w, "change_self_password", "handler")
        /\ Reads(w, [t EXCEPT !.pc = "find",
                        !.user = get_user_id_by_ip(logged_ips, t.ip)])

\* POST /admin/changepassword, users.find.  request.json["current"] and
\* ["new"] raise KeyError when the body lacks them, user["password"] raises
\* TypeError when the user read from the mapping is not stored.
change_self_password_find(w) ==
    LET t == pend[w]
        user == find(users, t.user)
    IN  /\ At(w, "change_self_password", "find")
        /\ IF "current" \notin DOMAIN t.body \/ user = <<>>
           THEN Reads(w, Return(t, ServerError))
           ELSE IF t.body.current.v # user[1].password
           THEN Reads(w, Return(t, get_void_response(STATUS_ACCESS_DENIED)))
           ELSE IF "new" \notin DOMAIN t.body
           THEN Reads(w, Return(t, ServerError))
           ELSE IF ~valid_password(t.body.new.v)
           THEN Reads(w, Return(t, get_void_response(STATUS_INVALID_JSON_DATA)))
           ELSE Reads(w, [t EXCEPT !.pc = "update", !.doc =
                            <<[user[1] EXCEPT !.password = t.body.new.v]>>])

\* POST /admin/changepassword, users.update.
change_self_password_update(w) ==
    LET t == pend[w]
    IN  /\ At(w, "change_self_password", "update")
        /\ Stores(w, Return(t, get_void_response(STATUS_SUCCESS)),
                  update(users, t.doc[1]._id, t.doc[1]), clients, bills,
                  nextId)

\* ------------------------------------------------------------------ after_req

\* has_restrict_access on a restricted route: get_user_id_by_ip.
has_restrict_access_user(w) ==
    LET t == pend[w]
        u_id == get_user_id_by_ip(logged_ips, t.ip)
    IN  /\ t.pc = "restrict"
        /\ IF u_id = None THEN Reads(w, [t EXCEPT !.pc = "update_log"])
           ELSE Reads(w, [t EXCEPT !.pc = "restrict_admin", !.user = u_id])

\* has_restrict_access on a restricted route: is_admin's users.find.
has_restrict_access_admin(w) ==
    LET t == pend[w]
    IN  /\ t.pc = "restrict_admin"
        /\ IF has_restrict_access(users, t.user, Path(t.route),
                                  Method(t.route))
           THEN Reads(w, [t EXCEPT !.pc = "filter", !.user = None])
           ELSE Reads(w, [t EXCEPT !.pc = "update_log", !.user = None])

\* after_req on a restricted response: get_user_id_by_ip and the filter.
\* When the filter raises, or returns a dict that flask_cors's function
\* cannot take, Flask makes the response of HTTP 500 and passes that one
\* through after_req again; an error in this second pass is logged and the
\* response is sent as it is.
after_req_filter(w) ==
    LET t == pend[w]
        res == restricted(t.out, get_user_id_by_ip(logged_ips, t.ip))
    IN  /\ t.pc = "filter"
        /\ IF res # <<>>
           THEN Reads(w, [t EXCEPT !.pc = "update_log", !.out = res[1]])
           ELSE IF t.out = ServerError THEN Reads(w, Sent(t, ServerError))
           ELSE Reads(w, [t EXCEPT !.pc = "restrict", !.out = ServerError])

\* after_req, update_log and the return of res: the request ends, unless
\* the key has no entry (KeyError).
after_req(w) ==
    LET t == pend[w]
    IN  /\ t.pc = "update_log"
        /\ IF t.ip \in DOMAIN logged_ips
           THEN Logs(w, Sent(t, t.out), update_log(logged_ips, t.ip, now))
           ELSE Reads(w, [t EXCEPT !.pc = "update_log_new"])

\* update_log after KeyError: a new entry is written over whatever the key
\* has by now, and the request ends.
after_req_new(w) ==
    LET t == pend[w]
    IN  /\ t.pc = "update_log_new"
        /\ Logs(w, Sent(t, t.out),
                [k \in DOMAIN logged_ips \cup {t.ip} |->
                    IF k = t.ip
                    THEN [lastrequest |-> now, user |-> None,
                          logged |-> FALSE]
                    ELSE logged_ips[k]])

\* ------------------------------------------------------- time and the sweep

Tick(d) ==
    /\ now + d <= MaxTime
    /\ now' = now + d
    /\ UNCHANGED <<logged_ips, order, users, clients, bills, nextId, calls,
                   threads>>

\* timeout_check is called: list(logged_ips.keys()).
sweep_keys ==
    /\ job.pc = "wait"
    /\ job' = [pc |-> "check", keys |-> order, error |-> FALSE,
               begun |-> now, gone |-> {}]
    /\ UNCHANGED <<logged_ips, order, users, clients, bills, nextId, now,
                   calls, pend>>

\* The loop's test for the next key u: logged_ips[u]["lastrequest"] raises
\* KeyError when a request has deleted u since the snapshot, which ends the
\* cycle with the keys after u not examined.
sweep_check ==
    /\ job.pc = "check"
    /\ IF job.keys = <<>>
       THEN job' = [job EXCEPT !.pc = "wait"]
       ELSE LET u == Head(job.keys)
            IN  IF u \notin DOMAIN logged_ips
                THEN job' = [job EXCEPT !.pc = "wait", !.error = TRUE]
                ELSE IF now - logged_ips[u].lastrequest > LOG_TIMEOUT
                THEN job' = [job EXCEPT !.pc = "del"]
                ELSE job' = [job EXCEPT !.keys = Tail(@)]
    /\ UNCHANGED <<logged_ips, order, users, clients, bills, nextId, now,
                   calls, pend>>

\* del logged_ips[u], KeyError when a request has deleted u since the test.
sweep_del ==
    /\ job.pc = "del"
    /\ LET u == Head(job.keys)
       IN  IF u \notin DOMAIN logged_ips
           THEN /\ job' = [job EXCEPT !.pc = "wait", !.error = TRUE]
                /\ UNCHANGED <<logged_ips, order>>
           ELSE /\ logged_ips' =
                     [k \in DOMAIN logged_ips \ {u} |-> logged_ips[k]]
                /\ order' = keys(order, logged_ips')
                /\ job' = [job EXCEPT !.pc = "check", !.keys = Tail(@),
                                      !.gone = @ \cup {u}]
    /\ UNCHANGED <<users, clients, bills, nextId, now, calls, pend>>

\* The scheduler's job, one step of it.
timeout_check == sweep_keys \/ sweep_check \/ sweep_del

\* ------------------------------------------------------------ specification

Init ==
    /\ logged_ips = <<>>
    /\ order = <<>>
    /\ users = SeededUsers
    /\ clients = <<>>
    /\ bills = <<>>
    /\ nextId = 1
    /\ now = 0
    /\ vdoc = <<>>
    /\ vtemplate = <<>>
    /\ vstrict = TRUE
    /\ vresult = "none"
    /\ vusername = <<>>
    /\ vvalid = "none"
    /\ pend = [w \in Workers |-> NoThread]
    /\ job = NoJob

\* before_req's steps for an admin route, after the test of logged().
Admits(w) ==
    \/ admit_user(w)
    \/ admit(w)

\* after_req's steps on the restricted routes, before update_log.
Restricts(w) ==
    \/ has_restrict_access_user(w)
    \/ has_restrict_access_admin(w)
    \/ after_req_filter(w)

\* update_log and the end of the request.
Ends(w) ==
    \/ after_req(w)
    \/ after_req_new(w)

\* The steps of a login and of a logout.
Sessions(w) ==
    \/ process_login(w)
    \/ process_login_login(w)
    \/ logout(w)

\* Two threads serving one key: the clients are created and read next to
\* logins and logouts of the key.
Next ==
    \/ \E w \in Workers, body \in StoredLogins :
          arrive(w, "ip1", "process_login", body, 0)
    \/ \E w \in Workers : arrive(w, "ip1", "logout", <<>>, 0)
    \/ \E w \in Workers, body \in ClientBodies :
          arrive(w, "ip1", "create_client", body, 0)
    \/ \E w \in Workers : arrive(w, "ip1", "get_clients", <<>>, 0)
    \/ \E w \in Workers, _id \in DocIds :
          arrive(w, "ip1", "get_client", <<>>, _id)
    \/ \E w \in Workers : Sessions(w)
    \/ \E w \in Workers : create_client(w)
    \/ \E w \in Workers : create_client_insert(w)
    \/ \E w \in Workers : get_clients(w)
    \/ \E w \in Workers : get_client(w)
    \/ \E w \in Workers : Restricts(w)
    \/ \E w \in Workers : Ends(w)

Spec == Init /\ [][Next]_vars

\* Two threads serving one key: logins with right and wrong credentials,
\* logouts, the session's state read, a route that needs a session,
\* password resets.
NextLogin ==
    \/ \E w \in Workers, body \in LoginBodies :
          arrive(w, "ip1", "process_login", body, 0)
    \/ \E w \in Workers : arrive(w, "ip1", "logout", <<>>, 0)
    \/ \E w \in Workers : arrive(w, "ip1", "process_logged", <<>>, 0)
    \/ \E w \in Workers : arrive(w, "ip1", "get_bills", <<>>, 0)
    \/ \E w \in Workers, body \in ResetBodies :
          arrive(w, "ip1", "change_password", body, 0)
    \/ \E w \in Workers : Admits(w)
    \/ \E w \in Workers : Sessions(w)
    \/ \E w \in Workers : process_logged(w)
    \/ \E w \in Workers : process_logged_user(w)
    \/ \E w \in Workers : process_logged_find(w)
    \/ \E w \in Workers : process_logged_role(w)
    \/ \E w \in Workers : process_logged_admin(w)
    \/ \E w \in Workers : get_bills(w)
    \/ \E w \in Workers : change_password(w)
    \/ \E w \in Workers : change_password_update(w)
    \/ \E w \in Workers : Restricts(w)
    \/ \E w \in Workers : Ends(w)

SpecLogin == Init /\ [][NextLogin]_vars

\* Two threads serving one key: the admin routes that read the users and
\* change their roles, next to logins and logouts of the key.
NextAdmin ==
    \/ \E w \in Workers, body \in StoredLogins :
          arrive(w, "ip1", "process_login", body, 0)
    \/ \E w \in Workers : arrive(w, "ip1", "logout", <<>>, 0)
    \/ \E w \in Workers : arrive(w, "ip1", "get_users", <<>>, 0)
    \/ \E w \in Workers, _id \in UserIds :
          arrive(w, "ip1", "add_admin", <<>>, _id)
    \/ \E w \in Workers, _id \in UserIds :
          arrive(w, "ip1", "remove_admin", <<>>, _id)
    \/ \E w \in Workers : Admits(w)
    \/ \E w \in Workers : Sessions(w)
    \/ \E w \in Workers : get_users(w)
    \/ \E w \in Workers : add_admin(w)
    \/ \E w \in Workers : remove_admin(w)
    \/ \E w \in Workers : set_admin_self(w)
    \/ \E w \in Workers : set_admin_update(w)
    \/ \E w \in Workers : Ends(w)

SpecAdmin == Init /\ [][NextAdmin]_vars

\* One request thread, the sweep thread and the clock.
NextSession ==
    \/ \E ip \in IPs, body \in StoredLogins :
          arrive("w1", ip, "process_login", body, 0)
    \/ \E ip \in IPs : arrive("w1", ip, "logout", <<>>, 0)
    \/ \E ip \in IPs : arrive("w1", ip, "get_client", <<>>, 1)
    \/ Sessions("w1")
    \/ get_client("w1")
    \/ Restricts("w1")
    \/ Ends("w1")
    \/ timeout_check
    \/ \E d \in {LOG_TIMEOUT, LOG_TIMEOUT + 1} : Tick(d)

SpecSession == Init /\ [][NextSession]_vars

\* Two threads serving one key: creations of clients and bills next to
\* each other and next to a login or a logout.  No route of these is read
\* with GET, so has_restrict_access is false and the filter is not entered.
NextCreate ==
    \/ \E w \in Workers, body \in StoredLogins :
          arrive(w, "ip1", "process_login", body, 0)
    \/ \E w \in Workers : arrive(w, "ip1", "logout", <<>>, 0)
    \/ \E w \in Workers, body \in ClientBodies :
          arrive(w, "ip1", "create_client", body, 0)
    \/ \E w \in Workers, body \in BillBodies :
          Generated(body.client.v)
            /\ arrive(w, "ip1", "add_bill", body, 0)
    \/ \E w \in Workers : Sessions(w)
    \/ \E w \in Workers : create_client(w)
    \/ \E w \in Workers : create_client_insert(w)
    \/ \E w \in Workers : add_bill(w)
    \/ \E w \in Workers : add_bill_user(w)
    \/ \E w \in Workers : add_bill_insert(w)
    \/ \E w \in Workers : add_bill_find(w)
    \/ \E w \in Workers : add_bill_update(w)
    \/ \E w \in Workers : has_restrict_access_user(w)
    \/ \E w \in Workers : has_restrict_access_admin(w)
    \/ \E w \in Workers : Ends(w)

SpecCreate == Init /\ [][NextCreate]_vars

\* One request thread serving two keys: the clients and the bills, their
\* owners and the links between them, the users.
NextRecords ==
    \/ \E ip \in IPs, body \in Logins :
          arrive("w1", ip, "process_login", body, 0)
    \/ \E ip \in IPs, body \in ClientBodies :
          arrive("w1", ip, "create_client", body, 0)
    \/ \E ip \in IPs, cl_id \in ClientQueries :
          arrive("w1", ip, "search_clients", <<>>, cl_id)
    \/ \E ip \in IPs, _id \in DocIds, body \in UpdateBodies :
          arrive("w1", ip, "updateClient", body, _id)
    \/ \E ip \in IPs, _id \in DocIds :
          arrive("w1", ip, "delete_client", <<>>, _id)
    \/ \E ip \in IPs, body \in BillBodies :
          Generated(body.client.v)
            /\ arrive("w1", ip, "add_bill", body, 0)
    \/ \E ip \in IPs : arrive("w1", ip, "get_bills", <<>>, 0)
    \/ \E ip \in IPs, id \in DocIds :
          arrive("w1", ip, "delete_bill", <<>>, id)
    \/ \E ip \in IPs, body \in UserBodies :
          arrive("w1", ip, "create_user", body, 0)
    \/ \E ip \in IPs, body \in OwnPasswordBodies :
          arrive("w1", ip, "change_self_password", body, 0)
    \/ Admits("w1")
    \/ process_login("w1")
    \/ process_login_login("w1")
    \/ create_client("w1")
    \/ create_client_insert("w1")
    \/ search_clients("w1")
    \/ updateClient("w1")
    \/ updateClient_update("w1")
    \/ delete_client("w1")
    \/ add_bill("w1")
    \/ add_bill_user("w1")
    \/ add_bill_insert("w1")
    \/ add_bill_find("w1")
    \/ add_bill_update("w1")
    \/ get_bills("w1")
    \/ delete_bill("w1")
    \/ delete_bill_delete("w1")
    \/ create_user("w1")
    \/ change_self_password("w1")
    \/ change_self_password_find("w1")
    \/ change_self_password_update("w1")
    \/ Restricts("w1")
    \/ Ends("w1")

SpecRecords == Init /\ [][NextRecords]_vars

\* valid_doc_datatype applied once to a drawn document, template and mode.
Keys == {"username", "password", "role"}
Kinds == {"str", "int"}

Documents ==
    UNION {[ks -> {[type |-> k, v |-> <<>>] : k \in Kinds}] : ks \in SUBSET Keys}

Templates == UNION {[ks -> Kinds] : ks \in SUBSET Keys}

InitValidate ==
    /\ logged_ips = <<>>
    /\ order = <<>>
    /\ users = SeededUsers
    /\ clients = <<>>
    /\ bills = <<>>
    /\ nextId = 1
    /\ now = 0
    /\ vdoc \in Documents
    /\ vtemplate \in Templates
    /\ vstrict \in BOOLEAN
    /\ vresult = "none"
    /\ vusername = <<>>
    /\ vvalid = "none"
    /\ pend = [w \in Workers |-> NoThread]
    /\ job = NoJob

Validate ==
    /\ vresult = "none"
    /\ vresult' = IF valid_doc_datatype(vdoc, vtemplate, vstrict)
                  THEN "True" ELSE "False"
    /\ UNCHANGED <<logged_ips, order, users, clients, bills, nextId, now,
                   vdoc, vtemplate, vstrict, vusername, vvalid, threads>>

SpecValidate == InitValidate /\ [][Validate]_vars

\* valid_username applied once to a drawn username: every string of up to
\* MaxName characters over a letter, a digit and the underscore, and the
\* strings of one letter around both ends of USERNAME_LENGTH.
NameChars == {"a", "1", "_"}

Usernames ==
    UNION {[1..n -> NameChars] : n \in 0..MaxName}
    \cup {[i \in 1..n |-> "a"] :
              n \in {USERNAME_LENGTH[1] - 1, USERNAME_LENGTH[1],
                      USERNAME_LENGTH[2] - 1, USERNAME_LENGTH[2]}}

InitUsername ==
    /\ logged_ips = <<>>
    /\ order = <<>>
    /\ users = SeededUsers
    /\ clients = <<>>
    /\ bills = <<>>
    /\ nextId = 1
    /\ now = 0
    /\ vdoc = <<>>
    /\ vtemplate = <<>>
    /\ vstrict = TRUE
    /\ vresult = "none"
    /\ vusername \in Usernames
    /\ vvalid = "none"
    /\ pend = [w \in Workers |-> NoThread]
    /\ job = NoJob

ValidUsername ==
    /\ vvalid = "none"
    /\ vvalid' = valid_username(vusername)
    /\ UNCHANGED <<logged_ips, order, users, clients, bills, nextId, now,
                   vdoc, vtemplate, vstrict, vresult, vusername, threads>>

SpecUsername == InitUsername /\ [][ValidUsername]_vars

\* ==================================================================== claims

RestrictedRoutes == {"clients", "client", "bills"}

AccessDenied == [status |-> 3, kind |-> "null", docs |-> <<>>, val |-> 0]

\* The workers that have answered a request; pend holds the last one.
Served == {w \in Workers : pend[w].pc = "sent"}

\* The request t was a GET on a restricted route from a key that named a
\* non-admin user when it arrived, and its handler ran.
RestrictedRead(t) ==
    /\ Path(t.route) \in RestrictedRoutes
    /\ Method(t.route) = "GET"
    /\ t.who # None
    /\ ~t.admin
    /\ t.ran

\* The positions of docs the caller owns.
Owned(docs, caller) == {i \in DOMAIN docs : docs[i].user = caller}

\* The j-th smallest element of a set of positions.
Nth(S, j) == CHOOSE i \in S : Cardinality({k \in S : k <= i}) = j

\* C1 as claimed: a non-admin GET on a restricted route whose handler
\* returned a collection of N documents, K of them with user = caller, is
\* answered with exactly those K documents, in their original relative
\* order.
C1_OwnershipFilterKeepsOwnDocs ==
    \A w \in Served :
        (RestrictedRead(pend[w]) /\ pend[w].raw.kind = "list") =>
            LET t == pend[w]
                own == Owned(t.raw.docs, t.who)
            IN  /\ t.out.kind = "list"
                /\ t.out.status = t.raw.status
                /\ Len(t.out.docs) = Cardinality(own)
                /\ \A j \in 1..Len(t.out.docs) :
                       t.out.docs[j] = t.raw.docs[Nth(own, j)]

\* C2 as claimed: a non-admin GET on a restricted route whose handler
\* produced a single payload is answered AccessDenied whenever the payload's
\* user is not the caller (a null payload included), and passes through
\* unchanged when it is.
C2_SinglePayloadDeniedUnlessOwned ==
    \A w \in Served :
        LET t == pend[w]
        IN  (RestrictedRead(t) /\ t.raw.kind # "list") =>
                IF t.raw.kind = "doc" /\ t.raw.docs[1].user = t.who
                THEN t.out = t.raw
                ELSE t.out = AccessDenied

\* C3 as claimed: the ownership filter changes nothing for an admin caller,
\* for a method other than GET, and for a route that is not restricted.
C3_FilterFrame ==
    \A w \in Served :
        LET t == pend[w]
        IN  (t.ran /\ (t.admin \/ Method(t.route) # "GET"
                         \/ Path(t.route) \notin RestrictedRoutes)) =>
                t.out = t.raw

\* The worker w takes a step: every step of a worker changes its position.
Steps(w) == pend'[w].pc # pend[w].pc

\* C4 as claimed: a request to a route that needs a session, arriving when
\* no user is resolved for its key, is answered AccessDenied, its handler
\* does not run and none of its steps writes the document store.
C4_NoSessionNoHandler ==
    [][\A w \in Workers :
        (Steps(w) /\ Path(pend'[w].route) \in PRIVATE_ROUTES
           /\ pend'[w].who = None) =>
            /\ ~pend'[w].ran
            /\ UNCHANGED <<users, clients, bills, nextId>>
            /\ pend'[w].pc = "sent" => pend'[w].out = AccessDenied]_vars

\* C5: the handler of an admin route runs only for a request for whose key
\* before_req resolved a user, stored with the admin role when before_req
\* looked it up; every other request is answered AccessDenied.
C5_AdminRoutesForAdminsOnly ==
    \A w \in Served :
        LET t == pend[w]
        IN  Path(t.route) = "admin" =>
                /\ t.ran <=> (t.who # None /\ t.admin)
                /\ ~t.ran => t.out = AccessDenied

\* The seeded non-admin, made admin since, was admitted to an admin route.
C5_Witness ==
    \E w \in Served :
        /\ Path(pend[w].route) = "admin"
        /\ pend[w].who = "ub"
        /\ pend[w].ran

\* A logged non-admin was refused an admin route.
C5_WitnessDenied ==
    \E w \in Served :
        /\ Path(pend[w].route) = "admin"
        /\ pend[w].who = "ub"
        /\ ~pend[w].ran
        /\ pend[w].out = AccessDenied

\* The body carries a username and a password, both strings.
WellFormedLogin(body) ==
    /\ {"username", "password"} \subseteq DOMAIN body
    /\ body.username.type = "str"
    /\ body.password.type = "str"

\* The stored users whose username and password are the body's.
LoginMatches(body) ==
    {i \in DOMAIN users :
        /\ users[i].username = body.username.v
        /\ users[i].password = body.password.v}

\* C8: a login goes on to login(U), which replaces the key's entry by one
\* that is logged and bound to U, exactly when a stored user has the
\* supplied username and password as authenticate reads the users, U being
\* its id; otherwise it answers AccessDenied, and no step of a login other
\* than login(U) makes its key logged.
C8_LoginIffCredentialsMatch ==
    [][\A w \in Workers :
        LET t == pend[w]
            after == pend'[w]
        IN  /\ (Steps(w) /\ At(w, "process_login", "handler")
                  /\ WellFormedLogin(t.body)) =>
                  LET m == LoginMatches(t.body)
                  IN  IF m # {}
                      THEN /\ after.pc = "login"
                           /\ \E i \in m : after.user = users[i]._id
                      ELSE /\ after.pc = "update_log"
                           /\ after.raw = AccessDenied
            /\ (Steps(w) /\ At(w, "process_login", "login")) =>
                  /\ logged_ips'[t.ip].user = t.user
                  /\ logged_ips'[t.ip].logged
                  /\ after.raw.status = STATUS_SUCCESS
                  /\ \A k \in DOMAIN logged_ips \ {t.ip} :
                         /\ k \in DOMAIN logged_ips'
                         /\ logged_ips'[k] = logged_ips[k]
            /\ (Steps(w) /\ t.route = "process_login" /\ ~Free(w)
                  /\ t.pc # "login") =>
                  /\ logged(logged_ips', t.ip) => logged(logged_ips, t.ip)
                  /\ after.pc = "sent" => after.out = t.raw]_vars

\* A key logged as one user logged in as another: the entry is the new one.
C8_Witness ==
    \E w \in Served :
        /\ pend[w].route = "process_login"
        /\ pend[w].out.status = STATUS_SUCCESS
        /\ pend[w].who # None
        /\ logged_ips[pend[w].ip].logged
        /\ logged_ips[pend[w].ip].user \notin {None, pend[w].who}

\* A login with a stored username and another user's password was refused.
C8_WitnessDenied ==
    \E w \in Served :
        /\ pend[w].route = "process_login"
        /\ pend[w].body = Credentials(Bob, <<"p">>)
        /\ pend[w].out = AccessDenied

\* C9: the logout of a logged key leaves no user resolved for the key; a
\* user is resolved for it again only by login() of a login from that key;
\* and a request from a key with no user resolved that arrives at a route
\* that needs a session is refused by before_req, its handler not run.
C9_LogoutEndsSession ==
    [][/\ \A w \in Workers :
            LET t == pend[w]
                after == pend'[w]
            IN  /\ (Steps(w) /\ At(w, "logout", "handler")
                      /\ logged(logged_ips, t.ip)) =>
                      /\ get_user_id_by_ip(logged_ips', t.ip) = None
                      /\ ~logged(logged_ips', t.ip)
                      /\ after.raw.status = STATUS_SUCCESS
                /\ (Steps(w) /\ Free(w)
                      /\ Path(after.route) \in PRIVATE_ROUTES
                      /\ get_user_id_by_ip(logged_ips, after.ip) = None) =>
                      /\ ~after.ran
                      /\ after.raw = AccessDenied
                      /\ after.pc \in {"restrict", "update_log"}
       /\ \A ip \in IPs :
            (get_user_id_by_ip(logged_ips, ip) = None
               /\ get_user_id_by_ip(logged_ips', ip) # None) =>
                \E w \in Workers :
                    /\ Steps(w)
                    /\ At(w, "process_login", "login")
                    /\ pend[w].ip = ip]_vars

\* A logged key logged out and no user is resolved for it.
C9_Witness ==
    \E w \in Served :
        /\ pend[w].route = "logout"
        /\ pend[w].who # None
        /\ pend[w].out.status = STATUS_SUCCESS
        /\ get_user_id_by_ip(logged_ips, pend[w].ip) = None
        /\ ~logged(logged_ips, pend[w].ip)


\* C10 as claimed: a request from a key whose entry has been idle for more
\* than the timeout resolves no user and is denied on a route that needs a
\* session, swept or not.
C10_ExpiredSessionIsAnonymous ==
    \A w \in Served :
        LET t == pend[w]
        IN  (Path(t.route) \in PRIVATE_ROUTES /\ t.idle > LOG_TIMEOUT) =>
                /\ t.who = None
                /\ ~t.ran
                /\ t.out = AccessDenied

\* The timeout in the unit of time(): LOG_TIMEOUT is a number of minutes
\* (30 minutes, 1800 s) and the clock counts seconds.
TimeoutSeconds == LOG_TIMEOUT * 60

\* C11 as claimed: the timeout is 30 minutes.  No step of the sweep removes
\* or changes an entry that has been idle for 30 minutes or less; an entry
\* the sweep examines that has been idle for more than 30 minutes is sent to
\* the deletion, and the deletion removes it.
C11_SweepRemovesExpiredKeepsFresh ==
    [][job' # job =>
        /\ \A k \in DOMAIN logged_ips :
              now - logged_ips[k].lastrequest <= TimeoutSeconds =>
                  /\ k \in DOMAIN logged_ips'
                  /\ logged_ips'[k] = logged_ips[k]
        /\ (job.keys # <<>> /\ Head(job.keys) \in DOMAIN logged_ips
              /\ now - logged_ips[Head(job.keys)].lastrequest
                     > TimeoutSeconds) =>
              /\ job.pc = "check" => job'.pc = "del"
              /\ job.pc = "del" =>
                     Head(job.keys) \notin DOMAIN logged_ips']_vars

\* C18 as claimed: every request answered for a key, admitted or denied,
\* filtered or not, leaves the key's entry with lastrequest at the current
\* time.
C18_EveryRequestTouchesSession ==
    [][\A w \in Workers :
        (Steps(w) /\ pend'[w].pc = "sent") =>
            /\ pend'[w].ip \in DOMAIN logged_ips'
            /\ logged_ips'[pend'[w].ip].lastrequest = now]_vars

\* A worker has run login() for the key ip and has not reached update_log
\* yet.
LoginInProgress(ip) ==
    \E w \in Workers :
        /\ pend[w].pc = "update_log"
        /\ pend[w].route = "process_login"
        /\ pend[w].ip = ip
        /\ pend[w].raw.status = STATUS_SUCCESS

\* C19 as claimed: login() stores the entry with lastrequest at the current
\* time, and a step of the sweep taken after login() has written the entry,
\* before the request's update_log and within the timeout, leaves the entry
\* logged.
C19_SweepSparesFreshLogin ==
    [][/\ \A w \in Workers :
            (Steps(w) /\ At(w, "process_login", "login")) =>
                logged_ips'[pend[w].ip].lastrequest = now
       /\ \A w \in Workers :
            (job' # job /\ pend[w].pc = "update_log"
               /\ pend[w].route = "process_login"
               /\ pend[w].raw.status = STATUS_SUCCESS
               /\ now - pend[w].at <= LOG_TIMEOUT
               /\ logged(logged_ips, pend[w].ip)) =>
                logged(logged_ips', pend[w].ip)]_vars

\* C20 as claimed: a sweep cycle during which requests modify the mapping
\* ends without an exception, and when it ends no entry is left that was
\* idle for more than the timeout when the cycle began (an entry a login in
\* progress has just written aside).
C20_SweepSafeUnderRequests ==
    [][(job.pc # "wait" /\ job'.pc = "wait") =>
        /\ ~job'.error
        /\ \A k \in DOMAIN logged_ips' :
              LoginInProgress(k)
              \/ ~(job.begun - logged_ips'[k].lastrequest > LOG_TIMEOUT)]_vars

\* What strict validation accepts on the code: every key of the template is
\* in the document with the template's kind.
CoversTemplate(document, template) ==
    /\ DOMAIN template \subseteq DOMAIN document
    /\ \A k \in DOMAIN template : document[k].type = template[k]

\* C6 as claimed: strict validation accepts exactly the documents whose key
\* set is the template's and whose values have the template's kinds.
C6_StrictIffSameKeys ==
    (vstrict /\ vresult # "none") =>
        (vresult = "True" <=>
            (DOMAIN vdoc = DOMAIN vtemplate /\ CoversTemplate(vdoc, vtemplate)))

\* C6 amended: strict validation accepts exactly the documents that hold
\* every key of the template with the template's kind; keys of the document
\* that the template lacks are tolerated.
C6_StrictIffTemplateCovered ==
    (vstrict /\ vresult # "none") =>
        (vresult = "True" <=> CoversTemplate(vdoc, vtemplate))

\* A document with a key the template lacks was accepted in strict mode.
C6_Witness ==
    /\ vstrict
    /\ vresult = "True"
    /\ DOMAIN vtemplate # {}
    /\ DOMAIN vdoc \ DOMAIN vtemplate # {}

\* C7 as claimed: lenient validation accepts exactly the documents whose
\* every key is a key of the template with the template's kind.
C7_LenientIffKeysKnown ==
    (~vstrict /\ vresult # "none") =>
        (vresult = "True" <=>
            \A k \in DOMAIN vdoc :
                k \in DOMAIN vtemplate /\ vdoc[k].type = vtemplate[k])

\* C7 amended: lenient validation accepts exactly the documents in which
\* every key of the template that is present has the template's kind; keys
\* the template lacks and template keys that are missing are both ignored.
C7_LenientIffPresentKeysMatch ==
    (~vstrict /\ vresult # "none") =>
        (vresult = "True" <=>
            \A k \in DOMAIN vdoc \cap DOMAIN vtemplate :
                vdoc[k].type = vtemplate[k])

\* A document with a key the template lacks, and without one of the
\* template's keys, was accepted in lenient mode.
C7_Witness ==
    /\ ~vstrict
    /\ vresult = "True"
    /\ DOMAIN vdoc \ DOMAIN vtemplate # {}
    /\ DOMAIN vtemplate \ DOMAIN vdoc # {}
    /\ DOMAIN vdoc \cap DOMAIN vtemplate # {}



\* C16 as claimed: valid_username returns true for the strings of 4 to 36
\* characters that are all ASCII letters or digits, and false for every
\* other string.
C16_UsernameValidIffAlnumOfLength ==
    vvalid # "none" =>
        vvalid = (IF /\ Len(vusername) >= 4
                     /\ Len(vusername) <= 36
                     /\ Range(vusername) \subseteq USERNAME_ALLOWED_CHARS
                  THEN "True" ELSE "False")


\* C12 as claimed: a client or a bill is stored with the id of the user
\* the request's key named when the request arrived, never null, and no
\* step changes the user of a stored client or bill, whatever requests run
\* next to the creation.
C12_OwnerIsCreatorForever ==
    [][/\ \A i \in DOMAIN clients : clients'[i].user = clients[i].user
       /\ \A i \in DOMAIN bills : bills'[i].user = bills[i].user
       /\ \A w \in Workers :
             (Steps(w) /\ At(w, "create_client", "insert")) =>
                 /\ clients'[Len(clients')].user # None
                 /\ clients'[Len(clients')].user = pend[w].who
       /\ \A w \in Workers :
             (Steps(w) /\ At(w, "add_bill", "insert")) =>
                 /\ bills'[Len(bills')].user # None
                 /\ bills'[Len(bills')].user = pend[w].who]_vars

\* The ids of the stored bills whose client field names the client c.
BillsNaming(c) == {bills[j]._id : j \in {k \in DOMAIN bills : bills[k].client = c}}

\* C13 as claimed: between requests, the bills list of every client holds
\* exactly the ids of the stored bills that name the client, each once.
C13_BillsListsMatchBills ==
    (\A w \in Workers : Free(w)) =>
        \A i \in DOMAIN clients :
            /\ Range(clients[i].bills) = BillsNaming(clients[i]._id)
            /\ Len(clients[i].bills) = Cardinality(BillsNaming(clients[i]._id))

\* The status codes the envelope can carry.
StatusCodes ==
    {STATUS_SUCCESS, STATUS_POINTLESS_REQUEST, STATUS_NOT_FOUND_DOCUMENT,
     STATUS_ACCESS_DENIED, STATUS_INVALID_JSON_DATA,
     STATUS_DOCUMENT_ALREADY_EXISTS}

\* C14 as claimed: every request ends with the envelope {status, response}
\* carrying a defined status code; none ends in an uncaught exception.
C14_EveryRequestAnswersEnvelope ==
    \A w \in Served :
        /\ pend[w].out.kind # "error"
        /\ pend[w].out.status \in StatusCodes

\* C15 as claimed: in every reachable state, concurrent creations included,
\* no two users share a username and no two bills share a ref.
C15_UsernamesAndRefsUnique ==
    /\ \A i, j \in DOMAIN users :
           i # j => users[i].username # users[j].username
    /\ \A i, j \in DOMAIN bills : i # j => bills[i].ref # bills[j].ref

InvalidJSONData == [status |-> 4, kind |-> "null", docs |-> <<>>, val |-> 0]

\* The template of the routes that take a body described by one.
TemplateOf(handler) ==
    CASE handler = "process_login" -> TEMPLATE_LOGIN
      [] handler = "create_client" -> TEMPLATE_INSERT_CLIENT
      [] handler = "updateClient" -> TEMPLATE_UPDATE_CLIENT
      [] handler = "add_bill" -> TEMPLATE_INSERT_BILL
      [] handler = "create_user" -> TEMPLATE_USER
      [] handler = "change_password" -> TEMPLATE_CHANGE_PASSWORD

\* C17 as claimed: a request to a mutating route whose body does not match
\* the route's template, once admitted, is answered InvalidJSONData and
\* none of its steps writes the document store (login, client create,
\* client update, bill create, user create, password reset).
C17_InvalidBodyRefusedBeforeWrite ==
    [][\A w \in Workers :
        LET t == pend'[w]
        IN  (Steps(w) /\ t.ran
               /\ t.route \in {"process_login", "create_client",
                               "updateClient", "add_bill", "create_user",
                               "change_password"}
               /\ ~CoversTemplate(t.body, TemplateOf(t.route))) =>
                /\ UNCHANGED <<users, clients, bills>>
                /\ t.pc = "sent" => t.out = InvalidJSONData]_vars

\* C21 as claimed: when an admin asks /admin/removeadmin/<_id> for an
\* existing user other than themselves the answer is Success and that
\* user's admin value is false when the request ends; /admin/addadmin/<_id>
\* likewise sets it to true; with the caller's own id either request is
\* refused and none of its steps writes the users.
C21_RoleChangeSetsAdminValue ==
    [][\A w \in Workers :
        LET t == pend'[w]
        IN  (Steps(w) /\ t.ran /\ t.route \in {"add_admin", "remove_admin"}
               /\ find(users, t.key) # <<>>) =>
                IF t.key # t.who
                THEN t.pc = "sent" =>
                        /\ t.out.status = STATUS_SUCCESS
                        /\ find(users', t.key)[1].admin
                             = (t.route = "add_admin")
                ELSE /\ users' = users
                     /\ t.pc = "sent" => t.out.status # STATUS_SUCCESS]_vars
====
